---- MODULE Spec2Model ----
(***************************************************************************)
(* hack/heartbeat_account.py of cluster-api-provider-gcp: a script that    *)
(* keeps a boskos lease alive by POSTing /update once a minute.            *)
(*                                                                         *)
(* The script is one sequential process.  pc names the source line the     *)
(* process is about to execute; every statement of the script is one       *)
(* action.  Python strings that are URL-encoded are sequences of           *)
(* one-character strings, so that urlencode is computed character by       *)
(* character; strings that are only passed on (the host, the reason        *)
(* phrase) are TLA+ strings.                                                *)
(***************************************************************************)
EXTENDS Integers, Sequences, FiniteSets, TLC

VARIABLES
    env,                    \* os.environ: BOSKOS_HOST and BOSKOS_RESOURCE_NAME
    startEnv,               \* os.environ as it was when the process started
    pc,                     \* the line of the script about to run, or "exited"
    BOSKOS_HOST,            \* module global, line 23
    BOSKOS_RESOURCE_NAME,   \* module global, line 24
    count,                  \* local of the main block, line 29
    conn,                   \* the HTTPConnection bound to `conn`, line 32
    req,                    \* the request last handed to conn.request, line 33
    resp,                   \* the HTTPResponse bound to `resp`, line 39
    sends,                  \* number of conn.request calls made
    sleeps,                 \* number of time.sleep calls that returned
    clock,                  \* seconds spent inside time.sleep
    opened,                 \* number of HTTPConnection objects created
    openConns,              \* connections whose socket is open and not closed
    okResponses,            \* number of responses read with status 200
    transportErrors,        \* number of OSError/HTTPException raised by http.client
    exit,                   \* <<>> while running, <<status>> once the process ended
    output                  \* what has been written to stderr

vars == <<env, startEnv, pc, BOSKOS_HOST, BOSKOS_RESOURCE_NAME, count, conn, req, resp,
          sends, sleeps, clock, opened, openConns, okResponses, transportErrors,
          exit, output>>

----------------------------------------------------------------------------
(* Bounds of the model *)

\* conn.request calls explored in the full-run specification (above 180).
MaxSends == 182
\* conn.request calls explored in the request-format specification.
MaxSendsReq == 2
\* Longest resource name drawn in the request-format specification.
MaxNameLen == 2

(* Program constants *)

\* `while count < 180`
MaxCount == 180
\* `time.sleep(60)`, line 44
SleepSeconds == 60
\* `resp.status != 200`
StatusOK == 200

----------------------------------------------------------------------------
(* Strings *)

\* "cluster-api-provider-gcp"
USER == <<"c","l","u","s","t","e","r","-","a","p","i","-",
          "p","r","o","v","i","d","e","r","-","g","c","p">>

DefaultHost == "boskos"

\* Characters urllib.parse.quote never escapes: letters, digits and "_.-~".
AlwaysSafe ==
    {"a","b","c","d","e","f","g","h","i","j","k","l","m","n","o","p","q","r",
     "s","t","u","v","w","x","y","z",
     "0","1","2","3","4","5","6","7","8","9","_",".","-","~"}

\* The two hexadecimal digits of an ASCII character, as quote writes them.
HexOf(c) ==
    CASE c = " " -> <<"2","0">>
      [] c = "%" -> <<"2","5">>
      [] c = "&" -> <<"2","6">>
      [] c = "+" -> <<"2","B">>
      [] c = "/" -> <<"2","F">>
      [] c = "=" -> <<"3","D">>
      [] c = "?" -> <<"3","F">>

\* quote_plus on one character: safe characters stay, a space becomes "+",
\* everything else becomes %XX.
\* Mutant of QuoteChar: nothing is escaped.
QuoteChar_raw(c) == <<c>>

QuoteChar(c) ==
    IF c \in AlwaysSafe THEN <<c>>
    ELSE IF c = " " THEN <<"+">>
    ELSE <<"%">> \o HexOf(c)

RECURSIVE quote_plus(_)
quote_plus(s) ==
    IF s = <<>> THEN <<>> ELSE QuoteChar(Head(s)) \o quote_plus(Tail(s))

\* urlencode of a sequence of <<key, value>> pairs (a dict keeps insertion order).
RECURSIVE urlencode(_)
urlencode(pairs) ==
    IF pairs = <<>> THEN <<>>
    ELSE LET kv == Head(pairs)
             one == quote_plus(kv[1]) \o <<"=">> \o quote_plus(kv[2])
         IN IF Len(pairs) = 1 THEN one
            ELSE one \o <<"&">> \o urlencode(Tail(pairs))

\* The dict literal of lines 33-37.
HeartbeatParams(name) ==
    << <<  <<"n","a","m","e">>, name >>,
       <<  <<"s","t","a","t","e">>, <<"b","u","s","y">> >>,
       <<  <<"o","w","n","e","r">>, USER >> >>

\* "/update?%s" % urlencode({...})
HeartbeatUrl(name) ==
    <<"/","u","p","d","a","t","e","?">> \o urlencode(HeartbeatParams(name))

HeartbeatRequest(name) == [method |-> "POST", url |-> HeartbeatUrl(name)]

----------------------------------------------------------------------------
(* Inputs *)

\* Characters a resource name is drawn from: one safe character, the space,
\* and the characters that have a meaning inside a query string.
NameChars == {"a", " ", "&", "=", "+", "%"}

NamesUpTo(n) == UNION {[1..k -> NameChars] : k \in 0..n}

\* Resource names of the full-run specification.
RunNames == {<<"a">>, <<"a","&","b">>}

EnvHosts == {"boskos", "localhost:8080"}

Unset(blank) == [set |-> FALSE, val |-> blank]
SetTo(v) == [set |-> TRUE, val |-> v]

Environments(names) ==
    [host : {Unset("")} \cup {SetTo(h) : h \in EnvHosts},
     name : {Unset(<<>>)} \cup {SetTo(n) : n \in names}]

\* What the lease service may answer.
Responses ==
    [status : {200, 201, 500}, reason : {"OK", "Internal Server Error"}]

NoConn == [host |-> "", sock |-> "none"]
NoReq == [method |-> "", url |-> <<>>]
NoResp == [status |-> 0, reason |-> ""]
Unbound == "<unbound>"
UnboundName == <<"<unbound>">>

----------------------------------------------------------------------------
(* The process *)

InitWith(names) ==
    /\ env \in Environments(names)
    /\ startEnv = env
    /\ pc = "l23"
    /\ BOSKOS_HOST = Unbound
    /\ BOSKOS_RESOURCE_NAME = UnboundName
    /\ count = -1                  \* not bound before line 29
    /\ conn = NoConn
    /\ req = NoReq
    /\ resp = NoResp
    /\ sends = 0
    /\ sleeps = 0
    /\ clock = 0
    /\ opened = 0
    /\ openConns = 0
    /\ okResponses = 0
    /\ transportErrors = 0
    /\ exit = <<>>
    /\ output = <<>>

\* An exception nothing catches: the interpreter prints the traceback to
\* stderr and the process ends with status 1.
Raise(exc) ==
    /\ pc' = "exited"
    /\ exit' = <<1>>
    /\ output' = Append(output, [kind |-> "Traceback", exc |-> exc])

\* Mutant of SysExit: the process leaves with status 0.
SysExit_zero(r) ==
    /\ pc' = "exited"
    /\ exit' = <<0>>
    /\ output' = Append(output, [kind |-> "SystemExit", status |-> r.status,
                                 reason |-> r.reason, resp |-> r])

\* Mutant of SysExit: sys.exit(1), without a message.
SysExit_silent(r) ==
    /\ pc' = "exited"
    /\ exit' = <<1>>
    /\ output' = output

\* sys.exit(message): the message goes to stderr, the status is 1.
SysExit(r) ==
    /\ pc' = "exited"
    /\ exit' = <<1>>
    /\ output' = Append(output, [kind |-> "SystemExit", status |-> r.status,
                                 reason |-> r.reason, resp |-> r])

\* line 23: os.environ.get("BOSKOS_HOST", "boskos")
EnvironGet(e) == IF e.host.set THEN e.host.val ELSE DefaultHost

LoadHost ==
    /\ pc = "l23"
    /\ BOSKOS_HOST' = EnvironGet(env)
    /\ pc' = "l24"
    /\ UNCHANGED <<env, startEnv, BOSKOS_RESOURCE_NAME, count, conn, req, resp, sends,
                   sleeps, clock, opened, openConns, okResponses,
                   transportErrors, exit, output>>

\* Mutant of LoadResourceName: os.environ.get('BOSKOS_RESOURCE_NAME', '').
LoadResourceName_get ==
    /\ pc = "l24"
    /\ BOSKOS_RESOURCE_NAME' = (IF env.name.set THEN env.name.val ELSE <<>>)
    /\ pc' = "l28"
    /\ UNCHANGED <<env, startEnv, BOSKOS_HOST, count, conn, req, resp, sends,
                   sleeps, clock, opened, openConns, okResponses,
                   transportErrors, exit, output>>

\* line 24: os.environ['BOSKOS_RESOURCE_NAME']
LoadResourceName ==
    /\ pc = "l24"
    /\ IF env.name.set
       THEN /\ BOSKOS_RESOURCE_NAME' = env.name.val
            /\ pc' = "l28"
            /\ UNCHANGED <<exit, output>>
       ELSE /\ Raise("KeyError")
            /\ UNCHANGED BOSKOS_RESOURCE_NAME
    /\ UNCHANGED <<env, startEnv, BOSKOS_HOST, count, conn, req, resp, sends, sleeps,
                   clock, opened, openConns, okResponses, transportErrors>>

\* lines 28-29
Main ==
    /\ pc = "l28"
    /\ count' = 0
    /\ pc' = "l31"
    /\ UNCHANGED <<env, startEnv, BOSKOS_HOST, BOSKOS_RESOURCE_NAME, conn, req, resp,
                   sends, sleeps, clock, opened, openConns, okResponses,
                   transportErrors, exit, output>>

\* line 31: while count < 180; falling off the end of the script is exit 0.
LoopTest(cap) ==
    /\ pc = "l31"
    /\ sends < cap
    /\ IF count < MaxCount
       THEN /\ pc' = "l32"
            /\ UNCHANGED exit
       ELSE /\ pc' = "exited"
            /\ exit' = <<0>>
    /\ UNCHANGED <<env, startEnv, BOSKOS_HOST, BOSKOS_RESOURCE_NAME, count, conn, req,
                   resp, sends, sleeps, clock, opened, openConns, okResponses,
                   transportErrors, output>>

\* Mutant of ConnectionHost: the environment is read again on every pass.
ConnectionHost_reread == EnvironGet(env)

\* line 32: the constructor stores the host; the socket is opened by request.
ConnectionHost == BOSKOS_HOST

\* Mutant of NewConnection: the connection of the previous pass is kept.
NewConnection_reuse ==
    /\ pc = "l32"
    /\ IF conn = NoConn
       THEN /\ conn' = [host |-> ConnectionHost, sock |-> "unconnected"]
            /\ opened' = opened + 1
       ELSE UNCHANGED <<conn, opened>>
    /\ pc' = "l33"
    /\ UNCHANGED <<env, startEnv, BOSKOS_HOST, BOSKOS_RESOURCE_NAME, count, req,
                   resp, sends, sleeps, clock, openConns, okResponses,
                   transportErrors, exit, output>>

NewConnection ==
    /\ pc = "l32"
    /\ conn' = [host |-> ConnectionHost, sock |-> "unconnected"]
    /\ opened' = opened + 1
    /\ pc' = "l33"
    /\ UNCHANGED <<env, startEnv, BOSKOS_HOST, BOSKOS_RESOURCE_NAME, count, req, resp,
                   sends, sleeps, clock, openConns, okResponses,
                   transportErrors, exit, output>>

\* Mutant of OnTransportError: the error is swallowed and the pass goes on
\* to its sleep.
OnTransportError_swallow ==
    /\ pc' = "l44"
    /\ UNCHANGED <<exit, output, sleeps, clock>>

\* lines 32-39 have no try/except: a transport error propagates.
OnTransportError ==
    /\ Raise("OSError")
    /\ UNCHANGED <<sleeps, clock>>

\* The name the request carries.
RequestName == BOSKOS_RESOURCE_NAME

\* lines 33-37: conn.request connects (auto-open), then sends.
Request ==
    /\ pc = "l33"
    /\ sends' = sends + 1
    /\ req' = HeartbeatRequest(RequestName)
    /\ \E outcome \in {"sent", "connect failed", "send failed"} :
         CASE outcome = "sent" ->
                /\ conn' = [conn EXCEPT !.sock = "open"]
                /\ openConns' = openConns + 1
                /\ pc' = "l39"
                /\ UNCHANGED <<transportErrors, exit, output, sleeps, clock>>
           [] outcome = "connect failed" ->
                /\ transportErrors' = transportErrors + 1
                /\ OnTransportError
                /\ UNCHANGED <<conn, openConns>>
           [] outcome = "send failed" ->
                /\ conn' = [conn EXCEPT !.sock = "open"]
                /\ openConns' = openConns + 1
                /\ transportErrors' = transportErrors + 1
                /\ OnTransportError
    /\ UNCHANGED <<env, startEnv, BOSKOS_HOST, BOSKOS_RESOURCE_NAME, count, resp,
                   opened, okResponses>>

\* line 39: conn.getresponse()
GetResponse ==
    /\ pc = "l39"
    /\ \/ \E r \in Responses :
            /\ resp' = r
            /\ okResponses' = okResponses + (IF r.status = StatusOK THEN 1 ELSE 0)
            /\ pc' = "l40"
            /\ UNCHANGED <<transportErrors, exit, output, sleeps, clock>>
       \/ /\ transportErrors' = transportErrors + 1
          /\ OnTransportError
          /\ UNCHANGED <<resp, okResponses>>
    /\ UNCHANGED <<env, startEnv, BOSKOS_HOST, BOSKOS_RESOURCE_NAME, count, conn, req,
                   sends, opened, openConns>>

\* Mutant of IsInvalid: every 2xx status is accepted.
IsInvalid_not2xx(r) == r.status \notin 200..299

\* line 40: resp.status != 200
IsInvalid(r) == r.status # StatusOK

\* lines 40-41
\* Mutant of CheckStatus: the connection is closed before the status is
\* looked at.
CheckStatus_closes ==
    /\ pc = "l40"
    /\ conn' = [conn EXCEPT !.sock = "closed"]
    /\ openConns' = openConns - 1
    /\ IF IsInvalid(resp)
       THEN SysExit(resp)
       ELSE /\ pc' = "l42"
            /\ UNCHANGED <<exit, output>>
    /\ UNCHANGED <<env, startEnv, BOSKOS_HOST, BOSKOS_RESOURCE_NAME, count, req,
                   resp, sends, sleeps, clock, opened, okResponses,
                   transportErrors>>

CheckStatus ==
    /\ pc = "l40"
    /\ IF IsInvalid(resp)
       THEN SysExit(resp)
       ELSE /\ pc' = "l42"
            /\ UNCHANGED <<exit, output>>
    /\ UNCHANGED <<env, startEnv, BOSKOS_HOST, BOSKOS_RESOURCE_NAME, count, conn, req,
                   resp, sends, sleeps, clock, opened, openConns, okResponses,
                   transportErrors>>

\* line 42: conn.close()
\* Mutant of Close: the loop is left right after the close of the 180th
\* heartbeat, without the sleep.
Close_thenStop ==
    /\ pc = "l42"
    /\ conn' = [conn EXCEPT !.sock = "closed"]
    /\ openConns' = openConns - 1
    /\ IF sends >= MaxCount
       THEN pc' = "exited" /\ exit' = <<0>>
       ELSE pc' = "l44" /\ UNCHANGED exit
    /\ UNCHANGED <<env, startEnv, BOSKOS_HOST, BOSKOS_RESOURCE_NAME, count, req,
                   resp, sends, sleeps, clock, opened, okResponses,
                   transportErrors, output>>

Close ==
    /\ pc = "l42"
    /\ conn' = [conn EXCEPT !.sock = "closed"]
    /\ openConns' = openConns - 1
    /\ pc' = "l44"
    /\ UNCHANGED <<env, startEnv, BOSKOS_HOST, BOSKOS_RESOURCE_NAME, count, req, resp,
                   sends, sleeps, clock, opened, okResponses, transportErrors,
                   exit, output>>

\* Mutant of Sleep: the pass ends without sleeping.
Sleep_none ==
    /\ pc = "l44"
    /\ pc' = "l31"
    /\ UNCHANGED <<env, startEnv, BOSKOS_HOST, BOSKOS_RESOURCE_NAME, count,
                   conn, req, resp, sends, sleeps, clock, opened, openConns,
                   okResponses, transportErrors, exit, output>>

\* line 44: time.sleep(60); the loop body ends here and control returns to
\* line 31.  The body has no statement that assigns count.
Sleep ==
    /\ pc = "l44"
    /\ clock' = clock + SleepSeconds
    /\ sleeps' = sleeps + 1
    /\ pc' = "l31"
    /\ UNCHANGED <<env, startEnv, BOSKOS_HOST, BOSKOS_RESOURCE_NAME, count, conn, req,
                   resp, sends, opened, openConns, okResponses,
                   transportErrors, exit, output>>

\* The environment is changed during the run, after lines 23-24 have read
\* it; the script itself never writes os.environ.
EnvChange(names) ==
    /\ pc \notin {"l23", "l24", "exited"}
    /\ env' \in Environments(names) \ {env}
    /\ UNCHANGED <<startEnv, pc, BOSKOS_HOST, BOSKOS_RESOURCE_NAME, count, conn, req,
                   resp, sends, sleeps, clock, opened, openConns, okResponses,
                   transportErrors, exit, output>>

Run(cap) ==
    \/ LoadHost
    \/ LoadResourceName
    \/ Main
    \/ LoopTest(cap)
    \/ NewConnection
    \/ Request
    \/ GetResponse
    \/ CheckStatus
    \/ Close
    \/ Sleep

\* The full run: few names, more than 180 heartbeats.
Init == InitWith(RunNames)
Next == Run(MaxSends) \/ EnvChange(RunNames)
Spec == Init /\ [][Next]_vars

\* The request format: every name up to MaxNameLen, a few heartbeats, an
\* environment that stays as it was.
InitReq == InitWith(NamesUpTo(MaxNameLen))
NextReq == Run(MaxSendsReq)
SpecReq == InitReq /\ [][NextReq]_vars

----------------------------------------------------------------------------
(* Reading a request back, the way the lease service reads it *)

\* The position of the first sep in s, or Len(s) + 1 when there is none.
FirstIndex(s, sep) ==
    IF \E i \in 1..Len(s) : s[i] = sep
    THEN CHOOSE i \in 1..Len(s) : s[i] = sep /\ \A j \in 1..(i - 1) : s[j] # sep
    ELSE Len(s) + 1

\* The part of s before the first sep, and the part after it.
Before(s, sep) == SubSeq(s, 1, FirstIndex(s, sep) - 1)
After(s, sep) == SubSeq(s, FirstIndex(s, sep) + 1, Len(s))

\* s cut at every sep.
RECURSIVE Split(_, _)
Split(s, sep) ==
    IF FirstIndex(s, sep) > Len(s) THEN <<s>>
    ELSE <<Before(s, sep)>> \o Split(After(s, sep), sep)

Escaped == {" ", "%", "&", "+", "/", "=", "?"}

\* "+" is a space, %XX is the character with that code.
RECURSIVE Unquote(_)
Unquote(s) ==
    IF s = <<>> THEN <<>>
    ELSE IF Head(s) = "+" THEN <<" ">> \o Unquote(Tail(s))
    ELSE IF /\ Head(s) = "%"
            /\ Len(s) >= 3
            /\ \E c \in Escaped : HexOf(c) = <<s[2], s[3]>>
         THEN <<CHOOSE c \in Escaped : HexOf(c) = <<s[2], s[3]>> >>
              \o Unquote(SubSeq(s, 4, Len(s)))
    ELSE <<Head(s)>> \o Unquote(Tail(s))

\* The <<key, value>> pairs of a query string, in order.
ParseQuery(q) ==
    LET parts == Split(q, "&")
    IN [i \in 1..Len(parts) |->
          <<Unquote(Before(parts[i], "=")), Unquote(After(parts[i], "="))>>]

PathOf(url) == Before(url, "?")
QueryOf(url) == After(url, "?")

----------------------------------------------------------------------------
(* Vocabulary of the claims *)

Exited == pc = "exited"
ExitedWith(status) == Exited /\ exit = <<status>>
ExitedNonZero == Exited /\ exit \notin {<<>>, <<0>>}

\* The process has not met any fatal condition: the resource name was
\* there, no transport error was raised, every answer read so far was 200.
NothingFailed ==
    /\ output = <<>>
    /\ transportErrors = 0
    /\ okResponses >= sends - 1
    /\ (pc # "l39" => okResponses = sends)

\* count has been bound by line 29.
CountBound == pc \notin {"l23", "l24", "l28"} /\ count >= 0

\* Once the process has exited nothing happens any more.
ExitIsFinal == Exited => UNCHANGED vars

----------------------------------------------------------------------------
(* C1: when every heartbeat is answered with 200 and no transport error     *)
(* occurs, the loop makes exactly 180 send attempts and then the process    *)
(* exits with status 0: no 181st send is made, and once 180 passes are      *)
(* complete the process is at the loop test or has exited with 0.           *)
C1_Exactly180Sends ==
    NothingFailed =>
        /\ sends <= MaxCount
        /\ (sleeps = MaxCount => pc = "l31" \/ ExitedWith(0))

(* C2: the counter is 0 at start, grows by one on every completed pass,     *)
(* never exceeds 180, and always equals the number of completed passes.     *)
C2_CountEqualsPasses ==
    CountBound => count = sleeps /\ count <= MaxCount

----------------------------------------------------------------------------
(* C3: for k in 1..180, when the first k-1 heartbeats are answered with     *)
(* 200 and the k-th with another status, the process has made exactly k     *)
(* sends, exits with a non-zero status, and does nothing after that         *)
(* response: no send, no retry, no sleep.                                   *)
C3_NonOKIsFatal ==
    [][ /\ (pc = "l40" /\ resp.status # StatusOK /\ sends <= MaxCount /\ pc' # pc)
            => /\ ExitedNonZero'
               /\ sends' = sends
               /\ okResponses' = sends - 1
               /\ sleeps' = sends - 1
        /\ ExitIsFinal ]_vars

\* The 180th heartbeat is the first one answered with a non-200 status.
C3_Witness ==
    /\ ExitedNonZero
    /\ resp.status = 500
    /\ sends = MaxCount
    /\ okResponses = MaxCount - 1
    /\ sleeps = MaxCount - 1

(* C4: when BOSKOS_RESOURCE_NAME is absent at startup the process ends      *)
(* with a fatal error before any connection is created or any request is    *)
(* sent: such an execution has 0 send attempts.                             *)
C4_MissingNameSendsNothing ==
    ~startEnv.name.set =>
        /\ pc \in {"l23", "l24", "exited"}
        /\ (Exited => ExitedNonZero)
        /\ sends = 0
        /\ opened = 0
        /\ openConns = 0
        /\ req = NoReq

C4_Witness ==
    /\ ~startEnv.name.set
    /\ ExitedNonZero
    /\ sends = 0

(* C5: the process exits with status 0 only on normal completion (exactly   *)
(* 180 heartbeats sent, each answered with 200); a stop caused by a         *)
(* non-200 answer, a transport failure or the missing resource name has a   *)
(* non-zero status.                                                         *)
C5_ZeroOnlyOnCompletion ==
    /\ ExitedWith(0) =>
          /\ sends = MaxCount
          /\ okResponses = MaxCount
          /\ transportErrors = 0
    /\ (/\ Exited
        /\ \/ ~startEnv.name.set
           \/ transportErrors > 0
           \/ (resp # NoResp /\ resp.status # StatusOK))
          => ExitedNonZero

\* A run stopped by a transport failure on its second heartbeat.
C5_Witness ==
    /\ Exited
    /\ transportErrors = 1
    /\ sends = 2
    /\ exit = <<1>>

(* C6: every send attempt is a POST to /update whose query string has       *)
(* exactly the three parameters name, state and owner, with state = busy,   *)
(* name = the resource name resolved at startup and owner =                 *)
(* cluster-api-provider-gcp; the request is the same in every iteration.    *)
ExpectedParams ==
    << <<  <<"n","a","m","e">>, startEnv.name.val >>,
       <<  <<"s","t","a","t","e">>, <<"b","u","s","y">> >>,
       <<  <<"o","w","n","e","r">>,
           <<"c","l","u","s","t","e","r","-","a","p","i","-",
             "p","r","o","v","i","d","e","r","-","g","c","p">> >> >>

IsHeartbeat(r) ==
    /\ r.method = "POST"
    /\ PathOf(r.url) = <<"/","u","p","d","a","t","e">>
    /\ ParseQuery(QueryOf(r.url)) = ExpectedParams

C6_EverySendIsTheSameHeartbeat ==
    [][ /\ (req' # NoReq => IsHeartbeat(req'))
        /\ (req # NoReq => req' = req) ]_vars

\* The second heartbeat for the resource named "& ":
\* POST /update?name=%26+&state=busy&owner=cluster-api-provider-gcp
C6_Witness ==
    /\ sends = 2
    /\ startEnv.name = SetTo(<<"&", " ">>)
    /\ req.method = "POST"
    /\ req.url = <<"/","u","p","d","a","t","e","?",
                   "n","a","m","e","=","%","2","6","+","&",
                   "s","t","a","t","e","=","b","u","s","y","&",
                   "o","w","n","e","r","=",
                   "c","l","u","s","t","e","r","-","a","p","i","-",
                   "p","r","o","v","i","d","e","r","-","g","c","p">>

(* C7: a transport failure while connecting, sending or reading the k-th    *)
(* heartbeat is neither caught nor retried: the process ends with a         *)
(* non-zero status, makes no send k+1, and does not sleep.                  *)
C7_TransportErrorIsFatal ==
    [][ /\ (transportErrors' # transportErrors)
            => /\ transportErrors' = 1
               /\ ExitedNonZero'
               /\ sleeps' = sleeps
               /\ sends' = sleeps + 1
        /\ ExitIsFinal ]_vars

\* The third heartbeat could not connect.
C7_Witness ==
    /\ ExitedNonZero
    /\ transportErrors = 1
    /\ conn.sock = "unconnected"
    /\ sends = 3
    /\ sleeps = 2

(* C8: host and resource name are resolved once at startup: every           *)
(* connection goes to the startup value of BOSKOS_HOST, or to "boskos"      *)
(* when it was unset, and every send carries the startup value of           *)
(* BOSKOS_RESOURCE_NAME, whatever happens to the environment afterwards.    *)
StartupHost == IF startEnv.host.set THEN startEnv.host.val ELSE "boskos"

C8_ResolvedOnceAtStartup ==
    /\ pc # "l23" => BOSKOS_HOST = StartupHost
    /\ pc \notin {"l23", "l24"} /\ startEnv.name.set
          => BOSKOS_RESOURCE_NAME = startEnv.name.val
    /\ conn # NoConn => conn.host = StartupHost
    /\ req # NoReq =>
          ParseQuery(QueryOf(req.url))[1] = << <<"n","a","m","e">>, startEnv.name.val >>

\* The second heartbeat still goes to the default host for the startup
\* name, although the environment now names another host and another name.
C8_Witness ==
    /\ pc = "l39"
    /\ sends = 2
    /\ ~startEnv.host.set
    /\ conn = [host |-> "boskos", sock |-> "open"]
    /\ env.host = SetTo("localhost:8080")
    /\ startEnv.name = SetTo(<<"a">>)
    /\ env.name = SetTo(<<"a","&","b">>)

(* C9, as claimed: the only output is the diagnostic; it is written exactly *)
(* when a heartbeat is answered with a non-200 status, once, at exit, and   *)
(* carries that response's status code and reason phrase; a normal          *)
(* completion writes nothing.                                               *)
Diagnostic(r) ==
    [kind |-> "SystemExit", status |-> r.status, reason |-> r.reason, resp |-> r]

StoppedByNon200 == Exited /\ resp # NoResp /\ resp.status # StatusOK

C9_OutputOnlyOnNon200 ==
    /\ ExitedWith(0) => output = <<>>
    /\ output # <<>> <=> StoppedByNon200
    /\ output # <<>> => output = <<Diagnostic(resp)>>

(* C9, amended: nothing is written while the process runs or on normal      *)
(* completion; the diagnostic with the response's status code and reason    *)
(* phrase is written exactly when a heartbeat is answered with a non-200    *)
(* status, once, at exit; the only other output is the traceback of the     *)
(* uncaught exception, written once, at exit, when the resource name is     *)
(* missing or a transport failure occurs.                                   *)
C9_OutputOnlyAtFatalExit ==
    /\ ~Exited => output = <<>>
    /\ ExitedWith(0) => output = <<>>
    /\ Len(output) <= 1
    /\ StoppedByNon200 <=> (output # <<>> /\ output[1].kind = "SystemExit")
    /\ (output # <<>> /\ output[1].kind = "SystemExit")
          => output[1].status = resp.status /\ output[1].reason = resp.reason
    /\ (Exited /\ (~startEnv.name.set \/ transportErrors > 0))
          <=> (output # <<>> /\ output[1].kind = "Traceback")

\* The second heartbeat was answered 500 Internal Server Error.
C9_Witness ==
    /\ Exited
    /\ sends = 2
    /\ output = <<Diagnostic([status |-> 500, reason |-> "Internal Server Error"])>>

(* C10: between two consecutive sends there is exactly one 60-second sleep, *)
(* after the earlier send's response was read as 200 and its connection     *)
(* closed, and before the later send's connection is created; no send is    *)
(* made unless the previous send was followed by a completed sleep.         *)
C10_OneSleepBetweenSends ==
    [][ /\ (sends' # sends)
            => /\ sends' = sends + 1
               /\ sleeps = sends
               /\ clock = SleepSeconds * sends
        /\ (opened' # opened)
            => /\ opened' = opened + 1
               /\ sleeps = opened
               /\ sends = opened
               /\ openConns = 0
               /\ (opened > 0 => conn.sock = "closed")
        /\ (sleeps' # sleeps)
            => /\ sleeps' = sleeps + 1
               /\ clock' = clock + SleepSeconds
               /\ sleeps' = sends
               /\ resp.status = StatusOK
               /\ conn.sock = "closed" ]_vars

\* The third heartbeat is on the wire after two sleeps of 60 seconds.
C10_Witness ==
    /\ pc = "l39"
    /\ sends = 3
    /\ sleeps = 2
    /\ clock = 120

(* C11: every iteration creates a fresh connection that carries exactly one  *)
(* request and is never reused; a connection is closed before the next one  *)
(* is created, so at most one connection is open and at most one request    *)
(* is outstanding at any time.                                              *)
C11_OneFreshConnectionPerPass ==
    [][ /\ openConns' \in {0, 1}
        /\ opened' - sends' \in {0, 1}
        /\ sends' - okResponses' \in {0, 1}
        /\ (opened' # opened)
            => /\ opened' = opened + 1
               /\ conn'.sock = "unconnected"
               /\ conn.sock \in {"none", "closed"}
               /\ openConns = 0
        /\ (sends' # sends)
            => /\ conn.sock = "unconnected"
               /\ opened = sends + 1
               /\ okResponses = sends ]_vars

\* The third connection carries the third request; the two before it are
\* closed.
C11_Witness ==
    /\ pc = "l39"
    /\ opened = 3
    /\ sends = 3
    /\ openConns = 1
    /\ conn.sock = "open"

(* C12: the close is performed only on the success path.  After a non-200   *)
(* answer the process exits without closing that iteration's connection,    *)
(* so exactly one connection is still open at exit; after a 200 answer the  *)
(* connection is closed before the sleep begins.                            *)
C12_CloseOnlyOnSuccess ==
    [][ /\ (conn'.sock = "closed" /\ conn.sock # "closed")
            => /\ pc = "l42"
               /\ resp.status = StatusOK
        /\ StoppedByNon200'
            => /\ conn'.sock = "open"
               /\ openConns' = 1
        /\ (pc' = "l44")
            => /\ resp'.status = StatusOK
               /\ conn'.sock = "closed"
               /\ openConns' = 0
        /\ (sleeps' # sleeps) => conn.sock = "closed" /\ openConns = 0 ]_vars

\* The third heartbeat was answered 500: its connection was never closed.
C12_Witness ==
    /\ StoppedByNon200
    /\ sends = 3
    /\ opened = 3
    /\ conn.sock = "open"
    /\ openConns = 1

(* C13: the loop condition is evaluated only at the top of a pass, after    *)
(* the sleep of the previous pass.  Every 200 answer, that of the 180th     *)
(* heartbeat included, is followed by a full 60-second sleep before the     *)
(* program can stop; a run that ends normally has as many completed sleeps  *)
(* as sends, and its last step before the exit is a sleep, not a send.      *)
SuccessPath == (pc = "l40" /\ resp.status = StatusOK) \/ pc \in {"l42", "l44"}

C13_SleepAfterEvery200 ==
    [][ /\ SuccessPath => ~Exited'
        /\ (pc = "l44" /\ pc' # pc)
            => /\ pc' = "l31"
               /\ sleeps' = sleeps + 1
               /\ clock' = clock + SleepSeconds
               /\ sleeps' = okResponses
        /\ (pc' = "l31" /\ pc # "l31")
            => \/ pc = "l28" /\ sends = 0
               \/ pc = "l44" /\ sleeps' = sends
        /\ (exit' = <<0>> /\ exit = <<>>)
            => /\ pc = "l31"
               /\ sleeps = sends
               /\ clock = SleepSeconds * sends ]_vars

\* The 180th heartbeat was answered 200 and has been followed by its sleep;
\* the loop condition is about to be evaluated.
C13_Witness ==
    /\ pc = "l31"
    /\ sends = MaxCount
    /\ okResponses = MaxCount
    /\ sleeps = MaxCount
    /\ clock = 10800

====
